---------------------------- MODULE Spec2Model ----------------------------
(***************************************************************************)
(* Model of app/parse.py: a Selenium crawler that, for every page of       *)
(* EcommerceCrawler.PAGES, clicks the "more" button until it can no longer *)
(* be found (PageScraper._click_until_all_loaded), parses every product    *)
(* card of the page (PageScraper._parse_products / _parse_card) and writes *)
(* the products to a CSV file (ProductRepository.save).                    *)
(*                                                                         *)
(* Two specifications share the PageScraper actions:                       *)
(*   Spec      EcommerceCrawler.run over the pages of PAGES;               *)
(*   SpecPage  a client that calls PageScraper.load_all_products on one    *)
(*             page surface, possibly several times.                       *)
(*                                                                         *)
(* Texts are sequences of one-character strings, so that str.strip,        *)
(* str.replace, float() and int() are computed character by character.     *)
(***************************************************************************)
EXTENDS Integers, Sequences, FiniteSets, TLC

(***************************************************************************)
(* Bounds of the model.                                                    *)
(***************************************************************************)
\* Pages of PAGES the crawler of Spec visits (PAGES itself has six).
NumPages == 2
\* Most product cards (visible and hidden together) of a page of Spec.
CrawlMaxCards == 2
\* Most product cards (visible and hidden together) of the page of SpecPage.
MaxCards == 3
\* Calls of load_all_products the client of SpecPage makes.
MaxCalls == 2
\* Cards one click on the "more" button reveals.
RevealBatch == 1

(***************************************************************************)
(* Python text primitives.                                                 *)
(***************************************************************************)
Digits == {"0", "1", "2", "3", "4", "5", "6", "7", "8", "9"}

DigitVal(c) ==
    CASE c = "0" -> 0 [] c = "1" -> 1 [] c = "2" -> 2 [] c = "3" -> 3
      [] c = "4" -> 4 [] c = "5" -> 5 [] c = "6" -> 6 [] c = "7" -> 7
      [] c = "8" -> 8 [] c = "9" -> 9

\* str.isspace for the characters of the model: the blank.
IsSpace(c) == c = " "

RECURSIVE LStrip(_)
LStrip(s) ==
    IF s # <<>> /\ IsSpace(Head(s)) THEN LStrip(Tail(s)) ELSE s

RECURSIVE RStrip(_)
RStrip(s) ==
    IF s # <<>> /\ IsSpace(s[Len(s)]) THEN RStrip(SubSeq(s, 1, Len(s) - 1)) ELSE s

\* str.strip(): leading and trailing whitespace removed.
Strip(s) == RStrip(LStrip(s))

\* str.replace(old, ""), old one character: every occurrence removed.
ReplaceChar(s, old) == SelectSeq(s, LAMBDA c : c # old)

AllDigits(s) == \A k \in 1..Len(s) : s[k] \in Digits

RECURSIVE DigitsToNat(_)
DigitsToNat(s) ==
    IF s = <<>> THEN 0
    ELSE 10 * DigitsToNat(SubSeq(s, 1, Len(s) - 1)) + DigitVal(s[Len(s)])

RECURSIVE DropTrailingZeros(_)
DropTrailingZeros(s) ==
    IF s # <<>> /\ s[Len(s)] = "0" THEN DropTrailingZeros(SubSeq(s, 1, Len(s) - 1))
    ELSE s

Signed(s) == s # <<>> /\ Head(s) \in {"+", "-"}
Unsigned(s) == IF Signed(s) THEN Tail(s) ELSE s
SignOf(s) == IF s # <<>> /\ Head(s) = "-" THEN -1 ELSE 1

DotPositions(s) == {k \in 1..Len(s) : s[k] = "."}

\* A float: nan, +-inf, or the decimal num / 10^scale (scale digits after the
\* point, trailing zeros dropped, so that equal numbers are equal values).
FloatNan == [kind |-> "nan"]
FloatInf(sign) == [kind |-> "inf", sign |-> sign]
FloatDec(sign, int, frac) ==
    LET f == DropTrailingZeros(frac)
    IN  [kind |-> "finite", num |-> sign * DigitsToNat(int \o f), scale |-> Len(f)]

PyFail == [ok |-> FALSE]
PyOk(v) == [ok |-> TRUE, val |-> v]

\* float(text) for texts over blanks, signs, digits, the point and lower-case
\* letters: surrounding whitespace is ignored; an optional sign is followed by
\* nan, inf, infinity or by digits with at most one point and at least one
\* digit. Anything else is a ValueError (PyFail). Exponents and underscores
\* are outside the characters of the model.
PyFloat(text) ==
    LET s    == Strip(text)
        body == Unsigned(s)
        dots == DotPositions(body)
        dot  == IF dots = {} THEN Len(body) + 1 ELSE CHOOSE k \in dots : TRUE
        int  == SubSeq(body, 1, dot - 1)
        frac == SubSeq(body, dot + 1, Len(body))
    IN  IF body = <<"n", "a", "n">> THEN PyOk(FloatNan)
        ELSE IF body \in {<<"i", "n", "f">>,
                          <<"i", "n", "f", "i", "n", "i", "t", "y">>}
             THEN PyOk(FloatInf(SignOf(s)))
        ELSE IF /\ Cardinality(dots) <= 1
                /\ AllDigits(int) /\ AllDigits(frac)
                /\ Len(int) + Len(frac) >= 1
             THEN PyOk(FloatDec(SignOf(s), int, frac))
        ELSE PyFail

\* int(text) for the same texts: surrounding whitespace is ignored; an
\* optional sign is followed by at least one digit.
PyInt(text) ==
    LET s    == Strip(text)
        body == Unsigned(s)
    IN  IF body # <<>> /\ AllDigits(body)
        THEN PyOk(SignOf(s) * DigitsToNat(body))
        ELSE PyFail


(***************************************************************************)
(* The DOM of a product card, as _parse_card reads it.                     *)
(***************************************************************************)
\* A sub-element find_element does not find.
NoElement == [el |-> FALSE]
\* A sub-element with its visible text (WebElement.text).
TextElement(text) == [el |-> TRUE, text |-> text]
\* The title sub-element: get_attribute("title") is None or a text.
TitleNoAttr == [el |-> TRUE, attr |-> [set |-> FALSE]]
TitleElement(text) == [el |-> TRUE, attr |-> [set |-> TRUE, val |-> text]]

Card(title, description, price, stars, review) ==
    [title |-> title, description |-> description, price |-> price,
     stars |-> stars, review |-> review]

\* The texts the pages of the model show.
TxtA == <<"a">>
TxtB == <<"b">>
TxtPaddedA == <<" ", "a", " ">>
TxtBlank == <<" ">>
TxtEmpty == <<>>
TxtDollar100 == <<"$", "1", "0", "0">>
TxtDollar1p50 == <<" ", "$", "1", ".", "5", "0", " ">>
TxtFree == <<"f", "r", "e", "e">>
TxtDollarMinus5 == <<"$", "-", "5">>
TxtInnerDollar == <<"5", "$", "5">>
TxtNan == <<"n", "a", "n">>
TxtDollar == <<"$">>
Txt3 == <<"3">>
TxtPadded12 == <<" ", "1", "2", " ">>
TxtMinus3 == <<"-", "3">>
TxtX == <<"x">>

(***************************************************************************)
(* Product and the exceptions _parse_card raises.                          *)
(***************************************************************************)
Product(title, description, price, rating, num_of_reviews) ==
    [title |-> title, description |-> description, price |-> price,
     rating |-> rating, num_of_reviews |-> num_of_reviews]

NoExc == [type |-> "none"]
\* find_element found nothing for the locator.
NoSuchElementException(selector) ==
    [type |-> "NoSuchElementException", selector |-> selector]
\* None.strip(): 'NoneType' object has no attribute 'strip'.
AttributeError == [type |-> "AttributeError", attribute |-> "strip"]
\* float(raw) or int(raw) rejected raw.
ValueError(conversion, raw) ==
    [type |-> "ValueError", conversion |-> conversion, raw |-> raw]
\* An exception of the driver (TimeoutException, StaleElementReferenceException,
\* WebDriverException).
DriverException(type) == [type |-> type]

Returned(product) == [ok |-> TRUE, product |-> product]
Raised(e) == [ok |-> FALSE, exc |-> e]

\* PageScraper._parse_card: the fields are read in the order title,
\* description, price, rating, num_of_reviews; the first read that raises
\* ends the call.
ParseCard(card) ==
    IF ~card.title.el THEN Raised(NoSuchElementException("title"))
    ELSE IF ~card.title.attr.set THEN Raised(AttributeError)
    ELSE IF ~card.description.el THEN Raised(NoSuchElementException("description"))
    ELSE IF ~card.price.el THEN Raised(NoSuchElementException("price"))
    ELSE
      LET title       == Strip(card.title.attr.val)
          description == Strip(card.description.text)
          price_text  == Strip(card.price.text)
          price_arg   == ReplaceChar(price_text, "$")
          price       == PyFloat(price_arg)
          rating      == card.stars
      IN  IF ~price.ok THEN Raised(ValueError("float", price_arg))
          ELSE IF ~card.review.el
               THEN Raised(NoSuchElementException("span[itemprop='reviewCount']"))
          ELSE
            LET review_arg     == Strip(card.review.text)
                num_of_reviews == PyInt(review_arg)
            IN  IF ~num_of_reviews.ok THEN Raised(ValueError("int", review_arg))
                ELSE Returned(Product(title, description, price.val, rating,
                                      num_of_reviews.val))

(***************************************************************************)
(* The page surface: the cards in the DOM (visible) and those the page     *)
(* still holds back behind its "more" button (hidden).                     *)
(***************************************************************************)
Min(a, b) == IF a <= b THEN a ELSE b

BlankSurface == [visible |-> <<>>, hidden |-> <<>>]

\* element_to_be_clickable((By.CLASS_NAME, "btn-primary")): the page shows the
\* button while it holds cards back.
ControlActionable(s) == s.hidden # <<>>

\* wait.until(...) within its 5 seconds: the button, or a TimeoutException;
\* a slow page can time out although the button is still to come.
WaitUntilOutcomes(s) ==
    IF ControlActionable(s) THEN {"found", "TimeoutException"}
    ELSE {"TimeoutException"}

\* execute_script("arguments[0].click();", more_button): the click, or an
\* exception of the driver (the button went stale).
ClickOutcomes == {"clicked", "StaleElementReferenceException"}

\* The page after a click on "more": the next batch of cards joins the DOM.
Reveal(s) ==
    LET n == Min(RevealBatch, Len(s.hidden))
    IN  [visible |-> s.visible \o SubSeq(s.hidden, 1, n),
         hidden  |-> SubSeq(s.hidden, n + 1, Len(s.hidden))]

\* Clicks that exhaust the page.
ClicksNeeded(s) == (Len(s.hidden) + RevealBatch - 1) \div RevealBatch

(***************************************************************************)
(* The pages the model draws from.                                         *)
(***************************************************************************)
GoodA == Card(TitleElement(TxtPaddedA), TextElement(TxtA), TextElement(TxtDollar100),
              4, TextElement(Txt3))
GoodB == Card(TitleElement(TxtB), TextElement(TxtEmpty), TextElement(TxtDollar1p50),
              0, TextElement(TxtPadded12))
FreeCard == Card(TitleElement(TxtA), TextElement(TxtA), TextElement(TxtFree),
                 4, TextElement(Txt3))
UntitledCard == Card(TitleNoAttr, TextElement(TxtA), TextElement(TxtDollar100),
                     4, TextElement(Txt3))

\* Every card made of these sub-elements.
TitleInputs == {NoElement, TitleNoAttr, TitleElement(TxtBlank), TitleElement(TxtA),
                TitleElement(TxtPaddedA)}
PriceInputs == {NoElement} \cup
    {TextElement(t) : t \in {TxtDollar100, TxtDollar1p50, TxtFree, TxtDollarMinus5,
                             TxtInnerDollar, TxtNan, TxtDollar, TxtEmpty}}
ReviewInputs == {NoElement} \cup
    {TextElement(t) : t \in {Txt3, TxtPadded12, TxtMinus3, TxtX}}
CardInputs ==
    {Card(t, TextElement(TxtA), p, s, r) :
        t \in TitleInputs, p \in PriceInputs, s \in {0, 4}, r \in ReviewInputs}

SeqsUpTo(S, n) == UNION {[1..k -> S] : k \in 0..n}

\* The surfaces of at most max cards of pool, some shown and some held back.
Surfaces(pool, max) ==
    {[visible |-> v, hidden |-> h] :
        <<v, h>> \in {w \in SeqsUpTo(pool, max) \X SeqsUpTo(pool, max) :
                        Len(w[1]) + Len(w[2]) <= max}}

\* The cards of the pages with several cards.
CrawlPool == {GoodA, FreeCard}
PagePool == {GoodA, GoodB, FreeCard, UntitledCard}
Cards == CardInputs \cup PagePool \cup CrawlPool

\* What a page of the crawled site can show on navigation.
CrawlSurfaces == Surfaces(CrawlPool, CrawlMaxCards)

\* The surface the client of SpecPage holds: several cards of a pool, or one
\* card of any shape.
PageSurfaces ==
    Surfaces(PagePool, MaxCards)
    \cup {[visible |-> <<c>>, hidden |-> <<>>] : c \in CardInputs}

(***************************************************************************)
(* ProductRepository and EcommerceCrawler.PAGES.                           *)
(***************************************************************************)
\* The file names of PAGES, in the order of the dict.
PAGES == <<"home.csv", "computers.csv", "laptops.csv", "tablets.csv",
           "phones.csv", "touch.csv">>
FileNames == {PAGES[p] : p \in 1..NumPages}

\* fields(Product), the header row.
Header == <<"title", "description", "price", "rating", "num_of_reviews">>
\* The row save() hands to the csv writer for one product.
Row(product) ==
    <<product.title, product.description, product.price, product.rating,
      product.num_of_reviews>>

NoFile == [exists |-> FALSE]
\* ProductRepository.save: the file is opened for writing and holds the header
\* and one row per product, in the order of the list.
SavedFile(products) ==
    [exists |-> TRUE, header |-> Header,
     rows |-> [k \in 1..Len(products) |-> Row(products[k])]]

(***************************************************************************)
(* The state.                                                              *)
(***************************************************************************)
VARIABLES
    pc,          \* where the program is
    session,     \* the browser session: "none", "open" or "closed"
    page,        \* the number of pages of PAGES the loop of run has taken
    surface,     \* the page the driver shows
    files,       \* the CSV files: file name -> NoFile or a saved file
    elems,       \* _parse_products: the cards find_elements returned
    products,    \* _parse_products: the list built so far
    i,           \* _parse_products: how many cards the loop has taken
    exc,         \* the exception the last call of load_all_products raised
    calls,       \* SpecPage: calls of load_all_products made
    prev,        \* SpecPage: how the previous call ended, and its clicks
    clicks,      \* clicks on "more" in this call of _click_until_all_loaded
    lastLookup,  \* the outcome of the last wait.until of this call
    lastClick,   \* the outcome of the last execute_script of this call
    faulted,     \* this call saw a timeout with the button still to come, or a click raise
    atCall,      \* the surface when this call began
    quits,       \* calls of driver.quit
    lateOps      \* driver operations on a closed session

vars == <<pc, session, page, surface, files, elems, products, i, exc, calls, prev,
          clicks, lastLookup, lastClick, faulted, atCall, quits, lateOps>>

crawlerVars == <<page, files, quits>>
clientVars == <<calls, prev>>
loopVars == <<clicks, lastLookup, lastClick, faulted, atCall>>
parseVars == <<elems, products, i>>

NoPrev == [has |-> FALSE]

\* A driver operation; one on a closed session is counted.
DriverOp == lateOps' = IF session = "closed" THEN lateOps + 1 ELSE lateOps

InitCommon ==
    /\ elems = <<>> /\ products = <<>> /\ i = 0
    /\ exc = NoExc
    /\ calls = 0 /\ prev = NoPrev
    /\ clicks = 0 /\ lastLookup = "none" /\ lastClick = "none"
    /\ faulted = FALSE
    /\ quits = 0 /\ lateOps = 0
    /\ page = 0
    /\ files = [f \in FileNames |-> NoFile]

\* EcommerceCrawler() before run().
Init ==
    /\ InitCommon
    /\ pc = "start"
    /\ session = "none"
    /\ surface = BlankSurface
    /\ atCall = BlankSurface

\* A PageScraper on a driver that shows some page.
InitPage ==
    /\ InitCommon
    /\ pc = "idle"
    /\ session = "open"
    /\ surface \in PageSurfaces
    /\ atCall = surface

(***************************************************************************)
(* PageScraper.load_all_products.                                          *)
(***************************************************************************)
\* A handler that catches the timeout of the wait only.
LoopCatchesTimeoutOnly(type) == type = "TimeoutException"

\* "except Exception: break" of _click_until_all_loaded: every exception of
\* the try block ends the loop.
LoopCatches(type) == TRUE

\* A loop that clicks before it looks the button up.
LoopEntryClicksFirst == "click"
\* A loop body that runs once: after the click the method goes on.
AfterClickLeavesLoop == "find"

\* "while True:" begins with the lookup of the button ...
LoopEntry == "lookup"
\* ... and goes back to it after a click.
AfterClick == "lookup"

\* load_all_products is entered: _click_until_all_loaded begins.
BeginLoad ==
    /\ pc = "call"
    /\ pc' = LoopEntry
    /\ exc' = NoExc
    /\ clicks' = 0 /\ lastLookup' = "none" /\ lastClick' = "none"
    /\ faulted' = FALSE
    /\ atCall' = surface
    /\ elems' = <<>> /\ products' = <<>> /\ i' = 0
    /\ UNCHANGED <<session, surface, crawlerVars, clientVars, lateOps>>

\* more_button = wait.until(element_to_be_clickable(...)).
Lookup ==
    /\ pc = "lookup"
    /\ \E o \in WaitUntilOutcomes(surface) :
          /\ lastLookup' = o
          /\ faulted' = (faulted \/ (o # "found" /\ ControlActionable(surface)))
          /\ IF o = "found" THEN pc' = "click" /\ exc' = exc
             ELSE IF LoopCatches(o) THEN pc' = "find" /\ exc' = exc
             ELSE pc' = "raised" /\ exc' = DriverException(o)
    /\ DriverOp
    /\ UNCHANGED <<session, surface, crawlerVars, clientVars, parseVars,
                   clicks, lastClick, atCall>>

\* self._driver.execute_script("arguments[0].click();", more_button).
Click ==
    /\ pc = "click"
    /\ \E o \in ClickOutcomes :
          /\ lastClick' = o
          /\ IF o = "clicked"
             THEN /\ surface' = Reveal(surface)
                  /\ clicks' = clicks + 1
                  /\ pc' = AfterClick
                  /\ UNCHANGED <<faulted, exc>>
             ELSE /\ faulted' = TRUE
                  /\ UNCHANGED <<surface, clicks>>
                  /\ IF LoopCatches(o) THEN pc' = "find" /\ exc' = exc
                     ELSE pc' = "raised" /\ exc' = DriverException(o)
    /\ DriverOp
    /\ UNCHANGED <<session, crawlerVars, clientVars, parseVars, lastLookup, atCall>>

\* _parse_products: products = []; find_elements(By.CLASS_NAME, "thumbnail").
FindElements ==
    /\ pc = "find"
    /\ elems' = surface.visible
    /\ products' = <<>>
    /\ i' = 0
    /\ pc' = "parse"
    /\ DriverOp
    /\ UNCHANGED <<session, surface, crawlerVars, clientVars, loopVars, exc>>

\* _parse_card is a function of the card alone: its results for the cards of
\* the model, tabulated.
ParsedCard == [card \in Cards |-> ParseCard(card)]

\* A loop that puts the new product in front of the list.
ParseStepPrepends(list, card) ==
    LET r == ParsedCard[card]
    IN  IF r.ok THEN [pc |-> "parse", products |-> <<r.product>> \o list, exc |-> NoExc]
        ELSE [pc |-> "raised", products |-> list, exc |-> r.exc]

\* A loop that skips the card _parse_card refuses and goes on.
ParseStepSkips(list, card) ==
    LET r == ParsedCard[card]
    IN  IF r.ok THEN [pc |-> "parse", products |-> Append(list, r.product), exc |-> NoExc]
        ELSE [pc |-> "parse", products |-> list, exc |-> NoExc]

\* One turn of "for card in ...: products.append(self._parse_card(card))": the
\* product is appended, or the exception of _parse_card leaves the loop and
\* the method.
ParseStepResult(list, card) ==
    LET r == ParsedCard[card]
    IN  IF r.ok THEN [pc |-> "parse", products |-> Append(list, r.product), exc |-> NoExc]
        ELSE [pc |-> "raised", products |-> list, exc |-> r.exc]

ParseNext ==
    /\ pc = "parse"
    /\ i < Len(elems)
    /\ LET r == ParseStepResult(products, elems[i + 1])
       IN  /\ pc' = r.pc
           /\ products' = r.products
           /\ exc' = r.exc
    /\ i' = i + 1
    /\ DriverOp
    /\ UNCHANGED <<session, surface, crawlerVars, clientVars, loopVars, elems>>

\* "return products".
ParseDone ==
    /\ pc = "parse"
    /\ i = Len(elems)
    /\ pc' = "loaded"
    /\ UNCHANGED <<session, surface, crawlerVars, clientVars, loopVars, parseVars,
                   exc, lateOps>>

LoadAllProducts ==
    BeginLoad \/ Lookup \/ Click \/ FindElements \/ ParseNext \/ ParseDone

(***************************************************************************)
(* EcommerceCrawler.run.                                                   *)
(***************************************************************************)
\* An exit that quits only when the block ended without exception.
ExitQuitsOnSuccessOnly(e) == e = NoExc

\* A _scrape_page that opens the file before it loads the products: the
\* exception leaves the file behind, empty.
FilesAfterRaiseLeavesFile(fs, name) == [fs EXCEPT ![name] = SavedFile(<<>>)]

\* Scraper.__exit__(*args): quit, whatever the arguments.
ExitQuits(e) == TRUE

\* _scrape_page when load_all_products raises: save is not reached and the
\* files stay as they are.
FilesAfterRaise(fs, name) == fs

\* "with Scraper() as scraper": the driver is created.
Enter ==
    /\ pc = "start"
    /\ session' = "open"
    /\ pc' = "pages"
    /\ UNCHANGED <<surface, crawlerVars, clientVars, loopVars, parseVars, exc, lateOps>>

\* "for file_name, page_url in self.PAGES.items()": the next page.
NextPage ==
    /\ pc = "pages"
    /\ page < NumPages
    /\ page' = page + 1
    /\ pc' = "get"
    /\ UNCHANGED <<session, surface, files, quits, clientVars, loopVars, parseVars,
                   exc, lateOps>>

\* scraper.get(page_url): the driver shows the page, or the navigation raises.
Get ==
    /\ pc = "get"
    /\ \/ /\ surface' \in CrawlSurfaces
          /\ pc' = "cookies"
          /\ exc' = exc
       \/ /\ surface' = BlankSurface
          /\ pc' = "raised"
          /\ exc' = DriverException("WebDriverException")
    /\ DriverOp
    /\ UNCHANGED <<session, crawlerVars, clientVars, loopVars, parseVars>>

\* scraper.accept_cookies(): the banner is clicked if there is one; every
\* exception is swallowed. The cards of the page are not touched.
AcceptCookies ==
    /\ pc = "cookies"
    /\ pc' = "call"
    /\ DriverOp
    /\ UNCHANGED <<session, surface, crawlerVars, clientVars, loopVars, parseVars, exc>>

\* self._repository.save(file_name, products).
Save ==
    /\ pc = "loaded"
    /\ files' = [files EXCEPT ![PAGES[page]] = SavedFile(products)]
    /\ pc' = "pages"
    /\ UNCHANGED <<session, page, surface, quits, clientVars, loopVars, parseVars,
                   exc, lateOps>>

\* The with block is left, by the end of the loop or by an exception of
\* _scrape_page: __exit__ runs, and the exception goes on to the caller.
Exit ==
    /\ \/ pc = "pages" /\ page = NumPages /\ files' = files
       \/ pc = "raised" /\ files' = FilesAfterRaise(files, PAGES[page])
    /\ IF ExitQuits(exc)
       THEN session' = "closed" /\ quits' = quits + 1
       ELSE UNCHANGED <<session, quits>>
    /\ pc' = "done"
    /\ UNCHANGED <<page, surface, clientVars, loopVars, parseVars, exc, lateOps>>

Next ==
    \/ Enter \/ NextPage \/ Get \/ AcceptCookies
    \/ LoadAllProducts
    \/ Save \/ Exit

Spec == Init /\ [][Next]_vars

\* run is one sequential program: it takes its next step as long as it has
\* one (every wait of the driver is bounded).
FairSpec == Spec /\ WF_vars(Next)

(***************************************************************************)
(* A client of PageScraper.                                                *)
(***************************************************************************)
\* page_scraper.load_all_products() is called.
Call ==
    /\ pc = "idle"
    /\ calls < MaxCalls
    /\ calls' = calls + 1
    /\ pc' = "call"
    /\ UNCHANGED <<session, surface, crawlerVars, prev, loopVars, parseVars, exc, lateOps>>

\* The call returns its list.
Return ==
    /\ pc = "loaded"
    /\ prev' = [has |-> TRUE, ok |-> TRUE, products |-> products, clicks |-> clicks]
    /\ pc' = "idle"
    /\ UNCHANGED <<session, surface, crawlerVars, calls, loopVars, parseVars, exc, lateOps>>

\* The call raises and the client catches.
Caught ==
    /\ pc = "raised"
    /\ prev' = [has |-> TRUE, ok |-> FALSE, exc |-> exc, clicks |-> clicks]
    /\ pc' = "idle"
    /\ UNCHANGED <<session, surface, crawlerVars, calls, loopVars, parseVars, exc, lateOps>>

NextPageClient == Call \/ LoadAllProducts \/ Return \/ Caught

SpecPage == InitPage /\ [][NextPageClient]_vars

(***************************************************************************)
(* What the design asks of a card's source.                                *)
(***************************************************************************)
\* A decimal numeral: an optional sign, digits, at most one point, a digit at
\* least.
IsDecimalText(t) ==
    LET body == Unsigned(t)
        dots == DotPositions(body)
    IN  /\ Cardinality(dots) <= 1
        /\ \A k \in 1..Len(body) : body[k] \in Digits \cup {"."}
        /\ \E k \in 1..Len(body) : body[k] \in Digits

\* An integer numeral: an optional sign and digits.
IsIntegerText(t) == Unsigned(t) # <<>> /\ AllDigits(Unsigned(t))

\* The price text is numeric once trimmed and rid of a leading currency symbol.
NumericPrice(e) ==
    /\ e.el
    /\ LET t == Strip(e.text)
       IN  IsDecimalText(IF t # <<>> /\ Head(t) = "$" THEN Tail(t) ELSE t)

NumericReview(e) == e.el /\ IsIntegerText(Strip(e.text))

TitleMissing(card) == ~card.title.el \/ ~card.title.attr.set

\* A well-formed card: every sub-element is there, the title attribute is set,
\* and the price and review-count texts are numeric.
WellFormed(card) ==
    /\ ~TitleMissing(card)
    /\ card.description.el
    /\ NumericPrice(card.price)
    /\ NumericReview(card.review)

\* The failure the design reports for a card that _parse_card refuses: the
\* first field, in reading order, that is missing or malformed.
DesignFailure(card) ==
    IF TitleMissing(card) THEN [kind |-> "MissingFieldError", field |-> "title"]
    ELSE IF ~card.description.el
         THEN [kind |-> "MissingFieldError", field |-> "description"]
    ELSE IF ~card.price.el THEN [kind |-> "MissingFieldError", field |-> "price"]
    ELSE IF ~PyFloat(ReplaceChar(Strip(card.price.text), "$")).ok
         THEN [kind |-> "MalformedFieldError", field |-> "price"]
    ELSE IF ~card.review.el THEN [kind |-> "MissingFieldError", field |-> "reviewCount"]
    ELSE [kind |-> "MalformedFieldError", field |-> "reviewCount"]

\* What the exception that reaches the caller tells: its type tells missing
\* from malformed; a locator or a conversion names the field; nothing names
\* the card.
ExcKind(e) ==
    IF e.type \in {"NoSuchElementException", "AttributeError"} THEN "MissingFieldError"
    ELSE IF e.type = "ValueError" THEN "MalformedFieldError"
    ELSE "unknown"
ExcField(e) ==
    IF e.type = "NoSuchElementException"
    THEN (IF e.selector = "span[itemprop='reviewCount']" THEN "reviewCount"
          ELSE e.selector)
    ELSE IF e.type = "ValueError"
         THEN (IF e.conversion = "float" THEN "price" ELSE "reviewCount")
    ELSE "unknown"
ExcItemIndex(e) == IF "itemIndex" \in DOMAIN e THEN e.itemIndex ELSE -1

(***************************************************************************)
(* Properties.                                                             *)
(***************************************************************************)
\* _click_until_all_loaded has returned (or, for the call, what follows it has).
ExhaustReturned == pc \in {"find", "parse", "loaded", "raised"}
InLoad == pc \in {"lookup", "click", "find", "parse", "loaded", "raised"}

\* C1: _click_until_all_loaded never fails. No exception of the lookup or of
\* the click is ever the exception of the call, and once a lookup has timed
\* out or a click has raised the loop is over: the program is past it, on the
\* normal path.
C1_ExhaustNeverFails ==
    /\ exc.type \notin {"TimeoutException", "StaleElementReferenceException"}
    /\ pc \in {"lookup", "click"} =>
          /\ lastLookup \in {"none", "found"}
          /\ lastClick \in {"none", "clicked"}
    /\ (InLoad /\ (lastLookup = "TimeoutException"
                     \/ lastClick = "StaleElementReferenceException")) =>
          /\ ExhaustReturned
          /\ pc = "raised" => exc.type \in {"NoSuchElementException", "AttributeError",
                                            "ValueError"}

\* C1's case: a click raised, and the call went on to return its products.
C1_Witness ==
    /\ pc = "loaded"
    /\ lastClick = "StaleElementReferenceException"
    /\ exc = NoExc

\* C2: with a button that is there for exactly N lookups (no early timeout, no
\* click that raises), _click_until_all_loaded returns after exactly N clicks,
\* its last lookup timed out, the page holds nothing back and shows every
\* card; no click ever happens without the button; and 2 cards plus one
\* reveal of 1 give 3 products.
C2_ExhaustClicksN ==
    /\ clicks <= ClicksNeeded(atCall)
    /\ pc = "click" => ControlActionable(surface)
    /\ (ExhaustReturned /\ ~faulted) =>
          /\ clicks = ClicksNeeded(atCall)
          /\ lastLookup = "TimeoutException"
          /\ ~ControlActionable(surface)
          /\ surface.visible = atCall.visible \o atCall.hidden
    /\ (pc = "loaded" /\ ~faulted
          /\ Len(atCall.visible) = 2 /\ Len(atCall.hidden) = 1) =>
          /\ clicks = 1
          /\ Len(products) = 3

\* C2's case: the scenario of 2 cards and one reveal of 1 has run to its end.
C2_Witness ==
    /\ pc = "loaded" /\ ~faulted
    /\ Len(atCall.visible) = 2 /\ Len(atCall.hidden) = 1
    /\ clicks = 1 /\ lastLookup = "TimeoutException"
    /\ Len(products) = 3

\* C3: a call on a surface whose button is not there clicks nothing and leaves
\* the cards as they were, and the list it returns is the list the call
\* before it returned.
C3_ExhaustIdempotent ==
    (InLoad /\ ~ControlActionable(atCall)) =>
        /\ clicks = 0
        /\ surface = atCall
        /\ (pc = "loaded" /\ prev.has /\ prev.ok) => products = prev.products

\* C3's case: the first call clicked the page to its end and returned; the
\* second call, on the exhausted surface, has returned too.
C3_Witness ==
    /\ calls = 2 /\ pc = "loaded"
    /\ prev.has /\ prev.ok /\ prev.clicks > 0
    /\ ~ControlActionable(atCall)
    /\ products # <<>>

\* C4: the list of _parse_products holds the product of the k-th card at its
\* k-th place; when it is returned it holds one product for each card the
\* page showed at the call; and a well-formed card is never the card that
\* ends the call by an exception.
C4_EncounterOrder ==
    /\ \A k \in 1..Len(products) :
          k <= Len(elems) /\ products[k] = ParseCard(elems[k]).product
    /\ pc = "loaded" =>
          /\ elems = surface.visible
          /\ Len(products) = Len(elems)
    /\ (pc = "raised" /\ 1 <= i /\ i <= Len(elems)) => ~WellFormed(elems[i])

\* C4's case: three cards, the first and the last alike and the second another,
\* have been parsed: "$100" gave 100.0 and "3" gave 3.
C4_Witness ==
    /\ pc = "loaded"
    /\ elems = <<GoodA, GoodB, GoodA>>
    /\ products = <<Product(TxtA, TxtA, [kind |-> "finite", num |-> 100, scale |-> 0], 4, 3),
                    Product(TxtB, TxtEmpty, [kind |-> "finite", num |-> 15, scale |-> 1], 0, 12),
                    Product(TxtA, TxtA, [kind |-> "finite", num |-> 100, scale |-> 0], 4, 3)>>

\* C5: a card whose title sub-element or title attribute is missing, or whose
\* price or review-count text is not numeric, has no product in the list:
\* the list ends before the place of the first such card.
C5_NoRecordForMalformed ==
    \A k \in 1..Len(elems) :
        (k <= i /\ ( \/ TitleMissing(elems[k])
                     \/ ~NumericPrice(elems[k].price)
                     \/ ~NumericReview(elems[k].review) ))
            => Len(products) < k

\* C6, as claimed: when _parse_products is over, by return or by exception, it
\* has taken every card of the page.
C6_BatchNotAborted ==
    pc \in {"loaded", "raised"} => i = Len(elems)

\* C6, amended: the first card _parse_card refuses ends _parse_products: it is
\* the last card taken, its exception is the exception of the call, and the
\* list holds the products of the cards before it and is not returned.
C6_FirstFailureAborts ==
    \A k \in 1..i :
        ~ParseCard(elems[k]).ok =>
            /\ k = i
            /\ pc \notin {"parse", "loaded"}
            /\ exc = ParseCard(elems[k]).exc
            /\ Len(products) = k - 1

\* C6's case: a card was refused with cards of the page still to come.
C6_Witness ==
    /\ pc = "raised"
    /\ 1 <= i /\ i < Len(elems)
    /\ ~ParseCard(elems[i]).ok
    /\ ParseCard(elems[i + 1]).ok

\* C8: every product of the list has a title that is not empty, a price that
\* is a number and not negative, and a review count that is not negative.
C8_RecordConstraints ==
    \A k \in 1..Len(products) :
        /\ products[k].title # <<>>
        /\ products[k].price.kind = "finite"
        /\ products[k].price.num >= 0
        /\ products[k].num_of_reviews >= 0

\* C9: the exception of a refused card tells the kind of the failure, the
\* field that failed and the place of the card on the page.
C9_FailureIdentified ==
    (pc = "raised" /\ 1 <= i /\ i <= Len(elems)) =>
        /\ ExcKind(exc) = DesignFailure(elems[i]).kind
        /\ ExcField(exc) = DesignFailure(elems[i]).field
        /\ ExcItemIndex(exc) = i

(***************************************************************************)
(* Properties of EcommerceCrawler.run.                                     *)
(***************************************************************************)
FileOf(p) == files[PAGES[p]]

\* C7: a page's file exists only once the page's extraction has returned, it
\* then holds the header and the row of every card of the page, in order, and
\* the page whose extraction raised has no file.
C7_NoPartialPersistence ==
    /\ \A p \in 1..NumPages :
          FileOf(p).exists =>
              \/ p < page
              \/ p = page /\ pc \in {"pages", "done"} /\ exc = NoExc
    /\ (pc = "pages" /\ page >= 1) =>
          /\ elems = surface.visible
          /\ FileOf(page) =
                [exists |-> TRUE, header |-> Header,
                 rows |-> [k \in 1..Len(elems) |-> Row(ParseCard(elems[k]).product)]]
    /\ exc # NoExc => ~FileOf(page).exists

\* C7's case: the second page raised after its first card was parsed; the
\* first page has its file and the second has none.
C7_Witness ==
    /\ pc = "done" /\ exc # NoExc
    /\ page = 2 /\ i = 2 /\ Len(products) = 1
    /\ FileOf(1).exists /\ Len(FileOf(1).rows) >= 1
    /\ ~FileOf(2).exists

\* C10, the states: quit is called when run ends and not before, once, with no
\* driver operation after it; a run that ends without exception has taken and
\* saved every page, and one that ends by the exception of page k has taken
\* no page after k and saved the pages before k only.
C10_QuitState ==
    /\ quits = (IF pc = "done" THEN 1 ELSE 0)
    /\ session = "closed" <=> pc = "done"
    /\ lateOps = 0
    /\ (pc = "done" /\ exc = NoExc) =>
          page = NumPages /\ \A p \in 1..NumPages : FileOf(p).exists
    /\ (pc = "done" /\ exc # NoExc) =>
          \A p \in 1..NumPages : FileOf(p).exists <=> p < page

\* C10, the steps: a saved file is never written again, and after the
\* exception of a page nothing but the exit happens.
C10_QuitStep ==
    /\ \A f \in FileNames : files[f].exists => files'[f] = files[f]
    /\ exc # NoExc =>
          /\ pc = "raised" /\ pc' = "done"
          /\ page' = page /\ surface' = surface /\ files' = files

\* C10: run quits the browser exactly once, at its end, on every execution.
C10_QuitOnceAtEnd ==
    /\ []C10_QuitState
    /\ [][C10_QuitStep]_vars
    /\ <>(quits = 1)

\* C10's case: the first page raised with a page still to come; no page is
\* saved and the browser is quit.
C10_Witness ==
    /\ pc = "done" /\ exc.type = "ValueError"
    /\ page = 1 /\ NumPages > 1
    /\ quits = 1 /\ session = "closed"
    /\ \A p \in 1..NumPages : ~FileOf(p).exists

=============================================================================
